---- MODULE Spec2Model ----
(***************************************************************************)
(* Model of the notification service: the socket authentication gate, the  *)
(* user -> connections registry, the dispatcher (sendToUser), the webhook  *)
(* routes and the RabbitMQ consumption loop.                               *)
(***************************************************************************)
EXTENDS Integers, Sequences, FiniteSets, TLC

\* ------------------------------------------------------------ universe
Conns == {"c1", "c2"}
Users == {"u1", "u2"}
NoUser == "none"
\* A user id for which no client ever presents a token.
Offliner == "u3"

\* Credentials a client can put in an authenticate action.  "" is the
\* missing token; "nbf" is a token on which jwt.verify raises an error that
\* verifyJwtToken rethrows (neither JsonWebTokenError nor TokenExpiredError).
Tokens == {"", "tok_u1", "tok_u2", "invalid", "expired", "nbf"}

\* The sockets whose clients act in Spec.
Clients == {"c1"}

\* At most this many credential verifications in flight at a time.
MaxVerifying == 1
\* The per-connection count of failure signals saturates here.
MaxErrors == 2
\* offlineNotificationCount is followed up to this value.
MaxOffline == 1
\* For the user who never connects it is followed up to this value.
MaxMisses == 11
\* amqp.connect succeeds at most this many times.
MaxConnects == 3
\* At most this many reconnect timers are pending at a time.
MaxTimers == 2

\* Bodies of broker messages: text that is not JSON, the JSON literal null,
\* and event records by eventType ("unsupported" is analysis.failed with
\* metadata.errorType UNSUPPORTED_ASSESSMENT_TYPE, "other" any other type).
BodyKinds ==
  {"garbage", "null", "started", "completed", "failed", "unsupported", "other"}

\* A field that is not there (undefined), and the value null.
Absent == "absent"
Null == "null"

\* The fields read from a broker event or from a webhook request body.  The
\* event's resultId, metadata.assessmentName, errorMessage and
\* metadata.estimatedProcessingTime are the request's result_id,
\* assessment_name, error_message; status and message exist in requests only.
Input(k, u, j, r, n, e, t, st, m) ==
  [kind |-> k, userId |-> u, jobId |-> j, resultId |-> r, assessmentName |-> n,
   errorMessage |-> e, estimated |-> t, status |-> st, message |-> m]

ResultIds == {Absent, "r1"}
Names == {Absent, "", "a1"}
ErrorMessages == {Absent, "e1"}
Messages == {Absent, "m1"}
Estimates == {Absent, "5 minutes"}

\* Bodies with every field their handler reads.
Bodies ==
  {Input(k, NoUser, Absent, Absent, Absent, Absent, Absent, Absent, Absent) :
     k \in {"garbage", "null"}}
  \cup {Input(k, u, "j1", "r1", "a1",
               IF k \in {"failed", "unsupported"} THEN "e1" ELSE Absent,
               Absent, Absent, Absent) :
          k \in BodyKinds \ {"garbage", "null"}, u \in Users}

\* Bodies with fields left out or empty, for one user.
RichBodies ==
  Bodies
  \cup {Input("started", u, "j1", r, n, Absent, t, Absent, Absent) :
          u \in {"u1"}, r \in ResultIds, n \in Names, t \in Estimates}
  \cup {Input("completed", u, "j1", r, n, Absent, Absent, Absent, Absent) :
          u \in {"u1"}, r \in ResultIds, n \in Names}
  \cup {Input(k, u, "j1", r, n, e, Absent, Absent, Absent) :
          k \in {"failed", "unsupported"}, u \in {"u1"}, r \in ResultIds,
          n \in Names, e \in ErrorMessages}

\* Webhook requests: the route, and the body's fields.
Routes == {"started", "completed", "failed", "unknown"}
Statuses == {"processing", "started", "berhasil", "failed", "bogus"}
Requests ==
  {Input(k, u, "j1", r, n, e, Absent, st, m) :
     k \in Routes, u \in Users, r \in ResultIds, n \in {Absent, "a1"},
     e \in ErrorMessages, st \in Statuses, m \in Messages}

\* One well-formed request per route and user.
PlainRequests ==
  {Input(k, u, "j1", IF k = "completed" THEN "r1" ELSE Absent, "a1",
         IF k \in {"failed", "unknown"} THEN "e1" ELSE Absent, Absent,
         IF k = "started" THEN "processing"
         ELSE IF k = "completed" THEN "completed" ELSE "failed",
         Absent) :
     k \in Routes, u \in Users}

DeliveryEvents ==
  {"analysis-started", "analysis-complete", "analysis-failed", "analysis-unknown"}

VARIABLES
  connected,      \* socket -> "new" | "open" | "closed"
  userId,         \* socket.userId (NoUser while unset)
  authTimer,      \* the 10 s setTimeout of the connection handler
  verifying,      \* socket -> verifyToken calls awaiting their result
  userConnections,\* Map userId -> Set of socket ids (a function on its keys)
  rooms,          \* adapter rooms "user:<id>" -> set of socket ids
  offlineNotificationCount,
  emitted,        \* what each socket has been sent
  lastSend        \* the last sendToUser call and what it returned

sockVars == <<connected, userId, authTimer, verifying, userConnections, rooms,
              offlineNotificationCount, emitted, lastSend>>

VARIABLES
  sent,           \* the last sendToUser call's caller, input, event and data
  res,            \* the last HTTP response (status 0 before the first)
  uncaught        \* an exception has left an event listener uncaught

VARIABLES
  brokerUp,        \* the RabbitMQ server accepts connections
  amqpOpen,        \* the amqplib connections that are open
  connects,        \* connections made so far; they are numbered 1, 2, ...
  rmq,             \* config/rabbitmq's module variables: connection, channel
  reconnectTimers, \* setTimeout(reconnect, 5000) callbacks not yet run
  ec,              \* eventConsumer's module variables channel and isConsuming,
                   \* the consumers it has registered, its last startConsuming
  boot,            \* how far initializeEventConsumer has come
  msg              \* the message slot of the notifications queue

brokerVars == <<brokerUp, amqpOpen, connects, rmq, reconnectTimers, ec, boot, msg>>

vars == <<connected, userId, authTimer, verifying, userConnections, rooms,
          offlineNotificationCount, emitted, lastSend, sent, res, uncaught,
          brokerUp, amqpOpen, connects, rmq, reconnectTimers, ec, boot, msg>>

\* ------------------------------------------------------------ helpers
Min(a, b) == IF a < b THEN a ELSE b

\* authenticated: an 'authenticated' confirmation reached the socket;
\* errors / lastError: the auth_error signals that reached it;
\* delivered: a delivery event reached it;
\* afterClose: the server emitted to it after it had closed.
NoEmission ==
  [authenticated |-> FALSE, errors |-> 0, lastError |-> "", delivered |-> FALSE,
   afterClose |-> FALSE]

\* socket.emit(event, ...): the packet is written only while the transport
\* is open; an emit on a closed socket is dropped.  The count of failure
\* signals saturates at MaxErrors.
EmitTo(em, conn, c, event, message) ==
  IF conn[c] # "open"
  THEN [em EXCEPT ![c].afterClose = TRUE]
  ELSE IF event = "auth_error"
       THEN [em EXCEPT ![c].errors = Min(@ + 1, MaxErrors),
                       ![c].lastError = message]
       ELSE IF event = "authenticated"
            THEN [em EXCEPT ![c].authenticated = TRUE]
            ELSE [em EXCEPT ![c].delivered = TRUE]

\* Deregister dropping the user's whole entry.
Deregister_DropsUser(uc, u, c) ==
  IF u \in DOMAIN uc THEN [k \in DOMAIN uc \ {u} |-> uc[k]] ELSE uc

\* Map.delete of one socket id, dropping the key when the set gets empty.
Deregister(uc, u, c) ==
  IF u \in DOMAIN uc
  THEN IF uc[u] \ {c} = {}
       THEN [k \in DOMAIN uc \ {u} |-> uc[k]]
       ELSE [uc EXCEPT ![u] = @ \ {c}]
  ELSE uc

\* Map.set / Set.add of one socket id.
Register(uc, u, c) ==
  IF u \in DOMAIN uc
  THEN [uc EXCEPT ![u] = @ \cup {c}]
  ELSE [k \in DOMAIN uc \cup {u} |-> IF k = u THEN {c} ELSE uc[k]]

\* handleDisconnect: deregisters under the socket's CURRENT userId only.
handleDisconnect(uc, c) ==
  IF userId[c] # NoUser THEN Deregister(uc, userId[c], c) ELSE uc

\* The adapter's leaveAll on close.
LeaveAll(rm, c) == [u \in Users |-> rm[u] \ {c}]

\* socket.disconnect() / a transport close: leave every room, mark the socket
\* closed and run the 'disconnect' handler.  A no-op on a closed socket.
CloseRooms(c) == IF connected[c] = "open" THEN LeaveAll(rooms, c) ELSE rooms
CloseRegistry(c) ==
  IF connected[c] = "open" THEN handleDisconnect(userConnections, c)
  ELSE userConnections
CloseConnected(c) ==
  IF connected[c] = "open" THEN [connected EXCEPT ![c] = "closed"] ELSE connected

\* unifiedAuthService.verifyToken: the user, null, or a thrown error.
\* verifierUp says whether the auth services answer the HTTP calls.
verifyToken(token, verifierUp) ==
  CASE token = "nbf" -> [kind |-> "throw", id |-> NoUser]
    [] token \in {"invalid", "expired"} -> [kind |-> "null", id |-> NoUser]
    [] token = "tok_u1" ->
         IF verifierUp THEN [kind |-> "user", id |-> "u1"]
         ELSE [kind |-> "null", id |-> NoUser]
    [] token = "tok_u2" ->
         IF verifierUp THEN [kind |-> "user", id |-> "u2"]
         ELSE [kind |-> "null", id |-> NoUser]
    [] OTHER -> [kind |-> "null", id |-> NoUser]

RECURSIVE SumLen(_, _)
SumLen(f, S) ==
  IF S = {} THEN 0
  ELSE LET x == CHOOSE y \in S : TRUE IN Len(f[x]) + SumLen(f, S \ {x})

\* Credential verifications awaiting their result, over all sockets.
InFlight == SumLen(verifying, Conns)

RemoveAt(s, i) == SubSeq(s, 1, i - 1) \o SubSeq(s, i + 1, Len(s))

\* What each socket is sent by one sendToUser call.
NoPackets == [c \in {} |-> << >>]

\* The responses: status, and of the JSON body success, data.userId,
\* data.jobId and data.sent (absent from the error bodies and from the
\* body of GET /status).
NoReply ==
  [status |-> 0, success |-> FALSE, userId |-> Absent, jobId |-> Absent,
   sent |-> Absent]

Refusal(code) == [NoReply EXCEPT !.status = code]

Accepted(q, wasSent) ==
  [status |-> 200, success |-> TRUE, userId |-> q.userId, jobId |-> q.jobId,
   sent |-> wasSent]

StatusReply == [NoReply EXCEPT !.status = 200, !.success = TRUE]

NoCall ==
  [userId |-> NoUser, ret |-> FALSE, to |-> {}, registered |-> FALSE,
   packets |-> NoPackets, missLogged |-> FALSE]

NoSend ==
  [path |-> "none", event |-> "none", data |-> [status |-> "none"],
   in |-> Input("garbage", NoUser, Absent, Absent, Absent, Absent, Absent,
                Absent, Absent)]

\* ------------------------------------------------------------ initial state
SockInit ==
  /\ connected = [c \in Conns |-> "new"]
  /\ userId = [c \in Conns |-> NoUser]
  /\ authTimer = [c \in Conns |-> "idle"]
  /\ verifying = [c \in Conns |-> << >>]
  /\ userConnections = << >>
  /\ rooms = [u \in Users |-> {}]
  /\ offlineNotificationCount = << >>
  /\ emitted = [c \in Conns |-> NoEmission]
  /\ lastSend = NoCall
  /\ sent = NoSend
  /\ res = NoReply
  /\ uncaught = FALSE

\* ------------------------------------------------------------ socket actions
\* io.on('connection'): handlers are installed and the 10 s timer is started.
Connect(c) ==
  /\ connected[c] = "new"
  /\ connected' = [connected EXCEPT ![c] = "open"]
  /\ authTimer' = [authTimer EXCEPT ![c] = "pending"]
  /\ UNCHANGED <<userId, verifying, userConnections, rooms,
                 offlineNotificationCount, emitted, lastSend>>
  /\ UNCHANGED brokerVars
  /\ UNCHANGED <<sent, res, uncaught>>

\* authenticateSocket up to its await: a missing token is answered at once,
\* any other token starts a verification.
AuthenticateMissing(c) ==
  /\ connected[c] = "open"
  /\ emitted' = EmitTo(emitted, connected, c, "auth_error", "Token required")
  /\ UNCHANGED <<connected, userId, authTimer, verifying, userConnections, rooms,
                 offlineNotificationCount, lastSend>>
  /\ UNCHANGED brokerVars
  /\ UNCHANGED <<sent, res, uncaught>>

\* The 'authenticate' listener on an event sent without a payload: reading
\* data.token throws before authenticateSocket and its try block are entered,
\* and nothing around the listener catches.
AuthenticateNoPayload(c) ==
  /\ connected[c] = "open"
  /\ uncaught' = TRUE
  /\ UNCHANGED sockVars
  /\ UNCHANGED brokerVars
  /\ UNCHANGED <<sent, res>>

AuthenticateCall(c, token) ==
  /\ connected[c] = "open"
  /\ token # ""
  /\ InFlight < MaxVerifying
  /\ verifying' = [verifying EXCEPT
                     ![c] = Append(@, [token |-> token, late |-> userId[c] # NoUser])]
  /\ UNCHANGED <<connected, userId, authTimer, userConnections, rooms,
                 offlineNotificationCount, emitted, lastSend>>
  /\ UNCHANGED brokerVars
  /\ UNCHANGED <<sent, res, uncaught>>

\* authenticateSocket after its await, verifyToken having returned null or
\* thrown: the failure signal, then socket.disconnect().
AuthFail(c, message) ==
  /\ emitted' = EmitTo(emitted, connected, c, "auth_error", message)
  /\ connected' = CloseConnected(c)
  /\ rooms' = CloseRooms(c)
  /\ userConnections' = CloseRegistry(c)
  /\ UNCHANGED userId

\* AuthSuccess without the confirmation: the socket is bound, registered and
\* joined to the room, but no 'authenticated' is emitted.
AuthSuccess_Silent(c, u) ==
  /\ userId' = [userId EXCEPT ![c] = u]
  /\ userConnections' = Register(userConnections, u, c)
  /\ rooms' = [rooms EXCEPT ![u] = @ \cup {c}]
  /\ UNCHANGED <<emitted, connected>>

\* AuthSuccess replaying to the new socket what the user missed while offline.
AuthSuccess_FlushesOffline(c, u) ==
  /\ userId' = [userId EXCEPT ![c] = u]
  /\ userConnections' = Register(userConnections, u, c)
  /\ rooms' = [rooms EXCEPT ![u] = @ \cup {c}]
  /\ emitted' = LET em == EmitTo(emitted, connected, c, "authenticated", "") IN
                  IF u \in DOMAIN offlineNotificationCount
                  THEN EmitTo(em, connected, c, "analysis-complete", "")
                  ELSE em
  /\ UNCHANGED connected

\* authenticateSocket after its await, verifyToken having returned a user:
\* bind, register, join the room, confirm.  The socket's state is not looked at.
AuthSuccess(c, u) ==
  /\ userId' = [userId EXCEPT ![c] = u]
  /\ userConnections' = Register(userConnections, u, c)
  /\ rooms' = [rooms EXCEPT ![u] = @ \cup {c}]
  /\ emitted' = EmitTo(emitted, connected, c, "authenticated", "")
  /\ UNCHANGED connected

VerifyResolve(c, i, verifierUp) ==
  /\ i \in 1..Len(verifying[c])
  /\ LET r == verifyToken(verifying[c][i].token, verifierUp) IN
       CASE r.kind = "user" -> AuthSuccess(c, r.id)
         [] r.kind = "null" -> AuthFail(c, "Invalid or expired token")
         [] OTHER -> AuthFail(c, "Authentication failed")
  /\ verifying' = [verifying EXCEPT ![c] = RemoveAt(@, i)]
  /\ UNCHANGED <<authTimer, offlineNotificationCount, lastSend>>
  /\ UNCHANGED brokerVars
  /\ UNCHANGED <<sent, res, uncaught>>

\* AuthTimeout signalling the failure and leaving the socket open.
AuthTimeout_NoClose(c) ==
  /\ authTimer[c] = "pending"
  /\ IF userId[c] = NoUser
     THEN /\ emitted' = EmitTo(emitted, connected, c, "auth_error",
                               "Authentication timeout")
          /\ authTimer' = [authTimer EXCEPT
                             ![c] = IF connected[c] = "open" THEN "expired"
                                    ELSE "lapsed"]
          /\ UNCHANGED <<connected, rooms, userConnections>>
     ELSE /\ authTimer' = [authTimer EXCEPT ![c] = "passed"]
          /\ UNCHANGED <<emitted, connected, rooms, userConnections>>
  /\ UNCHANGED <<userId, verifying, offlineNotificationCount, lastSend>>
  /\ UNCHANGED brokerVars
  /\ UNCHANGED <<sent, res, uncaught>>

\* AuthTimeout with one timer for the whole server: its callback fails every
\* open socket that has not authenticated.
AuthTimeout_EveryWindow(c) ==
  /\ authTimer[c] = "pending"
  /\ LET late == {d \in Conns : userId[d] = NoUser /\ connected[d] = "open"} IN
       /\ emitted' = [d \in Conns |->
                        IF d \in late
                        THEN EmitTo(emitted, connected, d, "auth_error",
                                    "Authentication timeout")[d]
                        ELSE emitted[d]]
       /\ connected' = [d \in Conns |->
                          IF d \in late THEN "closed" ELSE connected[d]]
       /\ rooms' = [u \in Users |-> rooms[u] \ late]
  /\ authTimer' = [authTimer EXCEPT ![c] = "expired"]
  /\ UNCHANGED <<userId, verifying, userConnections, offlineNotificationCount,
                 lastSend>>
  /\ UNCHANGED brokerVars
  /\ UNCHANGED <<sent, res, uncaught>>

\* AuthTimeout without the test of socket.userId: the callback fails every
\* socket, authenticated or not.
AuthTimeout_IgnoresUserId(c) ==
  /\ authTimer[c] = "pending"
  /\ emitted' = EmitTo(emitted, connected, c, "auth_error", "Authentication timeout")
  /\ connected' = CloseConnected(c)
  /\ rooms' = CloseRooms(c)
  /\ userConnections' = CloseRegistry(c)
  /\ authTimer' = [authTimer EXCEPT
                     ![c] = IF connected[c] = "open" THEN "expired" ELSE "lapsed"]
  /\ UNCHANGED <<userId, verifying, offlineNotificationCount, lastSend>>
  /\ UNCHANGED brokerVars
  /\ UNCHANGED <<sent, res, uncaught>>

\* The setTimeout callback.  It is never cleared, so it runs once for every
\* socket, open or not.
AuthTimeout(c) ==
  /\ authTimer[c] = "pending"
  /\ IF userId[c] = NoUser
     THEN /\ emitted' = EmitTo(emitted, connected, c, "auth_error",
                               "Authentication timeout")
          /\ connected' = CloseConnected(c)
          /\ rooms' = CloseRooms(c)
          /\ userConnections' = CloseRegistry(c)
          /\ authTimer' = [authTimer EXCEPT
                             ![c] = IF connected[c] = "open" THEN "expired"
                                    ELSE "lapsed"]
     ELSE /\ authTimer' = [authTimer EXCEPT ![c] = "passed"]
          /\ UNCHANGED <<emitted, connected, rooms, userConnections>>
  /\ UNCHANGED <<userId, verifying, offlineNotificationCount, lastSend>>
  /\ UNCHANGED brokerVars
  /\ UNCHANGED <<sent, res, uncaught>>

\* The client goes away (or the transport closes): 'disconnect' is raised.
Disconnect(c) ==
  /\ connected[c] = "open"
  /\ connected' = CloseConnected(c)
  /\ rooms' = CloseRooms(c)
  /\ userConnections' = CloseRegistry(c)
  /\ UNCHANGED <<userId, authTimer, verifying, offlineNotificationCount,
                 emitted, lastSend>>
  /\ UNCHANGED brokerVars
  /\ UNCHANGED <<sent, res, uncaught>>

\* disconnectUser(userId): socket.disconnect(true) on every registered socket
\* id that io.sockets.sockets still knows; each 'disconnect' handler
\* deregisters under that socket's own userId.
RECURSIVE DeregisterAll(_, _)
DeregisterAll(uc, S) ==
  IF S = {} THEN uc
  ELSE LET c == CHOOSE x \in S : TRUE
       IN DeregisterAll(handleDisconnect(uc, c), S \ {c})

DisconnectUser(u) ==
  /\ IF u \in DOMAIN userConnections
     THEN LET found == {c \in userConnections[u] : connected[c] = "open"} IN
            /\ connected' = [c \in Conns |->
                               IF c \in found THEN "closed" ELSE connected[c]]
            /\ rooms' = [v \in Users |-> rooms[v] \ found]
            /\ userConnections' = DeregisterAll(userConnections, found)
     ELSE UNCHANGED <<connected, rooms, userConnections>>
  /\ UNCHANGED <<userId, authTimer, verifying, offlineNotificationCount,
                 emitted, lastSend>>
  /\ UNCHANGED brokerVars
  /\ UNCHANGED <<sent, res, uncaught>>

\* ------------------------------------------------------------ dispatcher
\* The sockets io.to(room).emit reaches: members of the room that are still
\* in the namespace's socket table.
\* adapter.rooms.get(room): undefined for a room nobody has joined.
RoomOf(u) == IF u \in DOMAIN rooms THEN rooms[u] ELSE {}

\* io.to(room) reaching one socket of the room only.
RoomSockets_One(u) ==
  LET live == {c \in RoomOf(u) : connected[c] = "open"} IN
    IF live = {} THEN {} ELSE {CHOOSE c \in live : TRUE}

RoomSockets(u) == {c \in RoomOf(u) : connected[c] = "open"}

listConnections(u) ==
  IF u \in DOMAIN userConnections THEN userConnections[u] ELSE {}

OfflineCount(u) ==
  IF u \in DOMAIN offlineNotificationCount THEN offlineNotificationCount[u] ELSE 0

\* How far a user's count of misses is followed.
MissBound(u) == IF u = Offliner THEN MaxMisses ELSE MaxOffline

\* sendToUser with the room found: the count of misses is left as it is.
sendToUser_KeepsCount(u, event, data) ==
  LET socketCount == Cardinality(RoomOf(u)) IN
  IF socketCount > 0
  THEN /\ emitted' = [c \in Conns |->
                        IF c \in RoomSockets(u)
                        THEN EmitTo(emitted, connected, c, event, "")[c]
                        ELSE emitted[c]]
       /\ UNCHANGED offlineNotificationCount
       /\ lastSend' = [userId |-> u, ret |-> TRUE, to |-> RoomSockets(u),
                       registered |-> listConnections(u) # {},
                       packets |-> [c \in RoomSockets(u) |->
                                      <<[event |-> event, data |-> data,
                                         stamp |-> 1]>>],
                       missLogged |-> FALSE]
  ELSE /\ OfflineCount(u) < MissBound(u)
       /\ offlineNotificationCount' =
            [k \in DOMAIN offlineNotificationCount \cup {u} |->
               IF k = u THEN OfflineCount(u) + 1 ELSE offlineNotificationCount[k]]
       /\ lastSend' = [userId |-> u, ret |-> FALSE, to |-> {},
                       registered |-> listConnections(u) # {},
                       packets |-> NoPackets,
                       missLogged |-> \/ OfflineCount(u) + 1 = 1
                                      \/ (OfflineCount(u) + 1) % 10 = 0]
       /\ UNCHANGED emitted

\* sendToUser(userId, event, data): one object {...data, timestamp} is built
\* with one reading of the clock ("stamp" numbers the readings of the call)
\* and io.to(room).emit writes it once to every socket of the room.  With an
\* empty room the user's count of misses goes up, and the miss is logged
\* when the count is 1 or a multiple of 10.
sendToUser(u, event, data) ==
  LET socketCount == Cardinality(RoomOf(u)) IN
  IF socketCount > 0
  THEN /\ emitted' = [c \in Conns |->
                        IF c \in RoomSockets(u)
                        THEN EmitTo(emitted, connected, c, event, "")[c]
                        ELSE emitted[c]]
       /\ offlineNotificationCount' =
            [k \in DOMAIN offlineNotificationCount \ {u} |->
               offlineNotificationCount[k]]
       /\ lastSend' = [userId |-> u, ret |-> TRUE, to |-> RoomSockets(u),
                       registered |-> listConnections(u) # {},
                       packets |-> [c \in RoomSockets(u) |->
                                      <<[event |-> event, data |-> data,
                                         stamp |-> 1]>>],
                       missLogged |-> FALSE]
  ELSE /\ OfflineCount(u) < MissBound(u)
       /\ offlineNotificationCount' =
            [k \in DOMAIN offlineNotificationCount \cup {u} |->
               IF k = u THEN OfflineCount(u) + 1 ELSE offlineNotificationCount[k]]
       /\ lastSend' = [userId |-> u, ret |-> FALSE, to |-> {},
                       registered |-> listConnections(u) # {},
                       packets |-> NoPackets,
                       missLogged |-> \/ OfflineCount(u) + 1 = 1
                                      \/ (OfflineCount(u) + 1) % 10 = 0]
       /\ UNCHANGED emitted

\* x || d
Or(x, d) == IF x \in {Absent, Null, ""} THEN d ELSE x

\* validateNotification: the Joi schema of the route.  Joi.string() refuses
\* the empty string, and an object schema refuses keys it does not name.
validateNotification(q) ==
  /\ q.userId \in Users \cup {Offliner}
  /\ q.jobId \notin {Absent, ""}
  /\ q.assessmentName \notin {Absent, ""}
  /\ q.message # ""
  /\ q.estimated = Absent
  /\ CASE q.kind = "started" ->
            /\ q.status \in {"processing", "started"}
            /\ q.resultId = Absent
            /\ q.errorMessage = Absent
       [] q.kind = "completed" ->
            /\ q.status \in {"berhasil", "completed", "success"}
            /\ q.resultId \notin {Absent, ""}
            /\ q.errorMessage = Absent
       [] q.kind = "failed" ->
            /\ q.status \in {"gagal", "failed", "error"}
            /\ q.resultId = Absent
            /\ q.errorMessage \notin {Absent, ""}
       [] OTHER ->
            /\ q.status \in {"gagal", "failed", "error", "unknown"}
            /\ q.resultId = Absent
            /\ q.errorMessage \notin {Absent, ""}

\* The event each route passes to sendToUser.
RouteEvent(k) ==
  CASE k = "started" -> "analysis-started"
    [] k = "completed" -> "analysis-complete"
    [] k = "failed" -> "analysis-failed"
    [] OTHER -> "analysis-unknown"

\* The webhookPayload each route builds from req.body.
RoutePayload(q) ==
  CASE q.kind = "started" ->
         [jobId |-> q.jobId, status |-> q.status,
          assessment_name |-> q.assessmentName,
          message |-> Or(q.message, "Analysis processing started...")]
    [] q.kind = "completed" ->
         [status |-> "completed", result_id |-> q.resultId,
          assessment_name |-> q.assessmentName]
    [] OTHER ->
         [status |-> "failed", result_id |-> Or(q.resultId, Null),
          assessment_name |-> q.assessmentName, error_message |-> q.errorMessage]

\* The request headers serviceAuth reads.
ServiceKeys == {Absent, "key", "wrong"}
InternalServices == {Absent, "analysis-worker"}
Headers == [key : ServiceKeys, internal : InternalServices]
INTERNAL_SERVICE_KEY == "key"
TrustedHeaders == [key |-> INTERNAL_SERVICE_KEY, internal |-> "analysis-worker"]

\* serviceAuth: next() is called, or the request is answered 401.
serviceAuth(h) ==
  /\ h.key \notin {Absent, ""}
  /\ h.internal \notin {Absent, ""}
  /\ h.key = INTERNAL_SERVICE_KEY

\* Webhook refusing to deliver while the module holds no open broker connection.
Webhook_NeedsBroker(h, q) ==
  /\ IF ~serviceAuth(h)
     THEN /\ res' = Refusal(401)
          /\ UNCHANGED <<emitted, offlineNotificationCount, lastSend, sent>>
     ELSE IF ~validateNotification(q)
     THEN /\ res' = Refusal(400)
          /\ UNCHANGED <<emitted, offlineNotificationCount, lastSend, sent>>
     ELSE IF rmq.connection \notin amqpOpen
     THEN /\ res' = Refusal(503)
          /\ UNCHANGED <<emitted, offlineNotificationCount, lastSend, sent>>
     ELSE /\ sendToUser(q.userId, RouteEvent(q.kind), RoutePayload(q))
          /\ sent' = [path |-> "webhook", event |-> RouteEvent(q.kind),
                      data |-> RoutePayload(q), in |-> q]
          /\ res' = Accepted(q, lastSend'.ret)
  /\ UNCHANGED <<connected, userId, authTimer, verifying, userConnections, rooms>>
  /\ UNCHANGED brokerVars
  /\ UNCHANGED uncaught

\* Webhook whose route does not list validateNotification.
Webhook_SkipsValidation(h, q) ==
  /\ IF ~serviceAuth(h)
     THEN /\ res' = Refusal(401)
          /\ UNCHANGED <<emitted, offlineNotificationCount, lastSend, sent>>
     ELSE /\ sendToUser(q.userId, RouteEvent(q.kind), RoutePayload(q))
          /\ sent' = [path |-> "webhook", event |-> RouteEvent(q.kind),
                      data |-> RoutePayload(q), in |-> q]
          /\ res' = Accepted(q, lastSend'.ret)
  /\ UNCHANGED <<connected, userId, authTimer, verifying, userConnections, rooms>>
  /\ UNCHANGED brokerVars
  /\ UNCHANGED uncaught

\* Webhook answering sent: true whatever sendToUser returned.
Webhook_AlwaysSent(h, q) ==
  /\ IF ~serviceAuth(h)
     THEN /\ res' = Refusal(401)
          /\ UNCHANGED <<emitted, offlineNotificationCount, lastSend, sent>>
     ELSE IF ~validateNotification(q)
     THEN /\ res' = Refusal(400)
          /\ UNCHANGED <<emitted, offlineNotificationCount, lastSend, sent>>
     ELSE /\ sendToUser(q.userId, RouteEvent(q.kind), RoutePayload(q))
          /\ sent' = [path |-> "webhook", event |-> RouteEvent(q.kind),
                      data |-> RoutePayload(q), in |-> q]
          /\ res' = Accepted(q, TRUE)
  /\ UNCHANGED <<connected, userId, authTimer, verifying, userConnections, rooms>>
  /\ UNCHANGED brokerVars
  /\ UNCHANGED uncaught

\* Webhook dropping the user's registry entry when it finds the room empty.
Webhook_PrunesRegistry(h, q) ==
  /\ IF ~serviceAuth(h)
     THEN /\ res' = Refusal(401)
          /\ UNCHANGED <<emitted, offlineNotificationCount, lastSend, sent,
                         userConnections>>
     ELSE IF ~validateNotification(q)
     THEN /\ res' = Refusal(400)
          /\ UNCHANGED <<emitted, offlineNotificationCount, lastSend, sent,
                         userConnections>>
     ELSE /\ sendToUser(q.userId, RouteEvent(q.kind), RoutePayload(q))
          /\ sent' = [path |-> "webhook", event |-> RouteEvent(q.kind),
                      data |-> RoutePayload(q), in |-> q]
          /\ res' = Accepted(q, lastSend'.ret)
          /\ userConnections' =
               IF RoomOf(q.userId) = {}
               THEN [k \in DOMAIN userConnections \ {q.userId} |->
                       userConnections[k]]
               ELSE userConnections
  /\ UNCHANGED <<connected, userId, authTimer, verifying, rooms>>
  /\ UNCHANGED brokerVars
  /\ UNCHANGED uncaught

\* Webhook with the two middlewares in the other order.
Webhook_ValidatesFirst(h, q) ==
  /\ IF ~validateNotification(q)
     THEN /\ res' = Refusal(400)
          /\ UNCHANGED <<emitted, offlineNotificationCount, lastSend, sent>>
     ELSE IF ~serviceAuth(h)
     THEN /\ res' = Refusal(401)
          /\ UNCHANGED <<emitted, offlineNotificationCount, lastSend, sent>>
     ELSE /\ sendToUser(q.userId, RouteEvent(q.kind), RoutePayload(q))
          /\ sent' = [path |-> "webhook", event |-> RouteEvent(q.kind),
                      data |-> RoutePayload(q), in |-> q]
          /\ res' = Accepted(q, lastSend'.ret)
  /\ UNCHANGED <<connected, userId, authTimer, verifying, userConnections, rooms>>
  /\ UNCHANGED brokerVars
  /\ UNCHANGED uncaught

\* The four POST routes: serviceAuth answers 401, validateNotification
\* answers 400 on a body its schema refuses, else the route builds its
\* payload, calls sendToUser and answers 200.
Webhook(h, q) ==
  /\ IF ~serviceAuth(h)
     THEN /\ res' = Refusal(401)
          /\ UNCHANGED <<emitted, offlineNotificationCount, lastSend, sent>>
     ELSE IF ~validateNotification(q)
     THEN /\ res' = Refusal(400)
          /\ UNCHANGED <<emitted, offlineNotificationCount, lastSend, sent>>
     ELSE /\ sendToUser(q.userId, RouteEvent(q.kind), RoutePayload(q))
          /\ sent' = [path |-> "webhook", event |-> RouteEvent(q.kind),
                      data |-> RoutePayload(q), in |-> q]
          /\ res' = Accepted(q, lastSend'.ret)
  /\ UNCHANGED <<connected, userId, authTimer, verifying, userConnections, rooms>>
  /\ UNCHANGED brokerVars
  /\ UNCHANGED uncaught

\* GET /notifications/status
Status(h) ==
  /\ res' = IF serviceAuth(h) THEN StatusReply ELSE Refusal(401)
  /\ UNCHANGED sockVars
  /\ UNCHANGED brokerVars
  /\ UNCHANGED <<sent, uncaught>>

\* ------------------------------------------------------------ broker loop
NoMessage ==
  [st |-> "none",
   body |-> Input("garbage", NoUser, Absent, Absent, Absent, Absent, Absent,
                  Absent, Absent),
   acks |-> 0, nacks |-> 0, requeue |-> FALSE, sends |-> 0, calls |-> << >>]

BrokerVarsInit ==
  /\ amqpOpen = {}
  /\ connects = 0
  /\ rmq = [connection |-> 0, channel |-> 0]
  /\ reconnectTimers = 0
  /\ ec = [channel |-> 0, isConsuming |-> FALSE, consumers |-> 0, last |-> "none"]
  /\ boot = "start"
  /\ msg = NoMessage

\* What the awaits of one rabbitmq.initialize() call can do: "refused" is
\* amqp.connect rejecting, "setup" is a rejection after the connection and the
\* channel exist (prefetch, assertExchange, assertQueue, bindQueue), "ok" is
\* the call returning the channel.
InitOutcomes ==
  IF ~brokerUp THEN {"refused"}
  ELSE IF connects < MaxConnects THEN {"ok", "setup"} ELSE {}

\* rabbitmq.initialize(): the new connection gets its 'close' and 'error'
\* handlers as soon as it exists; threw says the call rejected.
rmqInitialize(outcome, open) ==
  IF outcome = "refused"
  THEN [open |-> open, connects |-> connects, rmq |-> rmq, threw |-> TRUE]
  ELSE [open |-> open \cup {connects + 1}, connects |-> connects + 1,
        rmq |-> [connection |-> connects + 1, channel |-> connects + 1],
        threw |-> outcome # "ok"]

\* initializeEventConsumer, first await: eventConsumer.initialize().
BootInitialize(outcome) ==
  /\ boot = "start"
  /\ outcome \in InitOutcomes
  /\ LET r == rmqInitialize(outcome, amqpOpen) IN
       /\ amqpOpen' = r.open
       /\ connects' = r.connects
       /\ rmq' = r.rmq
       /\ ec' = IF r.threw THEN ec ELSE [ec EXCEPT !.channel = r.rmq.channel]
       /\ boot' = IF r.threw THEN "failed" ELSE "initialized"
  /\ UNCHANGED <<brokerUp, reconnectTimers, msg>>
  /\ UNCHANGED sockVars
  /\ UNCHANGED <<sent, res, uncaught>>

\* startConsuming without the test of isConsuming.
startConsuming_NoGuard(e) ==
  IF e.channel = 0 THEN [ec |-> [e EXCEPT !.last = "threw"], threw |-> TRUE]
  ELSE IF e.channel \in amqpOpen
       THEN [ec |-> [e EXCEPT !.isConsuming = TRUE, !.consumers = @ + 1,
                              !.last = "registered"],
             threw |-> FALSE]
       ELSE [ec |-> [e EXCEPT !.last = "threw"], threw |-> TRUE]

\* eventConsumer.startConsuming(): channel.consume resolves only on a channel
\* whose connection is open (a channel carries its connection's number).
startConsuming(e) ==
  IF e.isConsuming THEN [ec |-> [e EXCEPT !.last = "noop"], threw |-> FALSE]
  ELSE IF e.channel = 0 THEN [ec |-> [e EXCEPT !.last = "threw"], threw |-> TRUE]
  ELSE IF e.channel \in amqpOpen
       THEN [ec |-> [e EXCEPT !.isConsuming = TRUE, !.consumers = @ + 1,
                              !.last = "registered"],
             threw |-> FALSE]
       ELSE [ec |-> [e EXCEPT !.last = "threw"], threw |-> TRUE]

\* initializeEventConsumer, second await.
BootStartConsuming ==
  /\ boot = "initialized"
  /\ LET r == startConsuming(ec) IN
       /\ ec' = r.ec
       /\ boot' = IF r.threw THEN "failed" ELSE "done"
  /\ UNCHANGED <<brokerUp, amqpOpen, connects, rmq, reconnectTimers, msg>>
  /\ UNCHANGED sockVars
  /\ UNCHANGED <<sent, res, uncaught>>

\* A further call of the exported startConsuming, to its end.
StartConsuming ==
  /\ boot \in {"done", "failed"}
  /\ ec' = startConsuming(ec).ec
  /\ UNCHANGED <<brokerUp, amqpOpen, connects, rmq, reconnectTimers, boot, msg>>
  /\ UNCHANGED sockVars
  /\ UNCHANGED <<sent, res, uncaught>>

\* An open connection goes away: 'close' alone, or 'error' and then 'close'.
\* Each handler schedules its own reconnect.
ConnectionLost(g, withError) ==
  /\ g \in amqpOpen
  /\ reconnectTimers + (IF withError THEN 2 ELSE 1) <= MaxTimers
  /\ amqpOpen' = amqpOpen \ {g}
  /\ reconnectTimers' = reconnectTimers + (IF withError THEN 2 ELSE 1)
  /\ UNCHANGED <<brokerUp, connects, rmq, ec, boot, msg>>
  /\ UNCHANGED sockVars
  /\ UNCHANGED <<sent, res, uncaught>>

\* The server stops: every open connection fails.
BrokerDown ==
  /\ brokerUp
  /\ reconnectTimers + 2 * Cardinality(amqpOpen) <= MaxTimers
  /\ brokerUp' = FALSE
  /\ amqpOpen' = {}
  /\ reconnectTimers' = reconnectTimers + 2 * Cardinality(amqpOpen)
  /\ UNCHANGED <<connects, rmq, ec, boot, msg>>
  /\ UNCHANGED sockVars
  /\ UNCHANGED <<sent, res, uncaught>>

BrokerBack ==
  /\ ~brokerUp
  /\ brokerUp' = TRUE
  /\ UNCHANGED <<amqpOpen, connects, rmq, reconnectTimers, ec, boot, msg>>
  /\ UNCHANGED sockVars
  /\ UNCHANGED <<sent, res, uncaught>>

\* reconnect() whose catch block logs and schedules nothing.
reconnect_GivesUp(outcome) ==
  LET wasOpen == rmq.connection \in amqpOpen
      r == rmqInitialize(outcome, amqpOpen \ {rmq.connection})
  IN [open |-> r.open, connects |-> r.connects, rmq |-> r.rmq,
      timers |-> (reconnectTimers - 1) + (IF wasOpen THEN 1 ELSE 0),
      ec |-> ec]

\* reconnect(): close the connection the module holds (its 'close' handler
\* then schedules a reconnect of its own), run initialize() again, and on a
\* rejection schedule another reconnect.  eventConsumer is not told.
reconnect(outcome) ==
  LET wasOpen == rmq.connection \in amqpOpen
      r == rmqInitialize(outcome, amqpOpen \ {rmq.connection})
  IN [open |-> r.open, connects |-> r.connects, rmq |-> r.rmq,
      timers |-> (reconnectTimers - 1) + (IF wasOpen THEN 1 ELSE 0)
                 + (IF r.threw THEN 1 ELSE 0),
      ec |-> ec]

Reconnect(outcome) ==
  /\ reconnectTimers > 0
  /\ outcome \in InitOutcomes
  /\ LET r == reconnect(outcome) IN
       /\ r.timers <= MaxTimers
       /\ amqpOpen' = r.open
       /\ connects' = r.connects
       /\ rmq' = r.rmq
       /\ reconnectTimers' = r.timers
       /\ ec' = r.ec
  /\ UNCHANGED <<brokerUp, boot, msg>>
  /\ UNCHANGED sockVars
  /\ UNCHANGED <<sent, res, uncaught>>

\* Another service publishes an event; the durable queue keeps it.
Publish(b) ==
  /\ brokerUp
  /\ msg.st # "queued"
  /\ msg' = [NoMessage EXCEPT !.st = "queued", !.body = b]
  /\ UNCHANGED <<brokerUp, amqpOpen, connects, rmq, reconnectTimers, ec, boot>>
  /\ UNCHANGED sockVars
  /\ UNCHANGED <<sent, res, uncaught>>

\* CallbackThrows counting a false return of sendToUser as a failure.
CallbackThrows_WhenOffline(b) ==
  \/ b.kind \in {"garbage", "null"}
  \/ RoomOf(b.userId) = {}

\* The try block of the consumer callback throws when JSON.parse rejects the
\* body, or when the parsed value is null and eventData.eventType is read.
CallbackThrows(b) == b.kind \in {"garbage", "null"}

\* processEvent without the test of metadata.errorType: every analysis.failed
\* event goes out as analysis-failed.
processEvent_NoUnknown(b) ==
  CASE b.kind = "completed" -> "analysis-complete"
    [] b.kind = "failed" -> "analysis-failed"
    [] b.kind = "unsupported" -> "analysis-failed"
    [] b.kind = "started" -> "analysis-started"
    [] OTHER -> "none"

\* processEvent and the three handlers: the event name given to sendToUser,
\* "none" when the eventType is no case of the switch.
processEvent(b) ==
  CASE b.kind = "completed" -> "analysis-complete"
    [] b.kind = "failed" -> "analysis-failed"
    [] b.kind = "unsupported" -> "analysis-unknown"
    [] b.kind = "started" -> "analysis-started"
    [] OTHER -> "none"

\* handleAnalysisCompleted with the job id kept in the payload.
handleAnalysisCompleted_WithJobId(b) ==
  [status |-> "completed", result_id |-> b.resultId, jobId |-> b.jobId,
   assessment_name |-> Or(b.assessmentName, "Unknown Assessment")]

\* The webhookPayload of handleAnalysisCompleted.
handleAnalysisCompleted(b) ==
  [status |-> "completed", result_id |-> b.resultId,
   assessment_name |-> Or(b.assessmentName, "Unknown Assessment")]

\* The webhookPayload of handleAnalysisFailed.
handleAnalysisFailed(b) ==
  [status |-> "failed", result_id |-> Or(b.resultId, Null),
   assessment_name |-> Or(b.assessmentName, "Unknown Assessment"),
   error_message |-> b.errorMessage]

\* The webhookPayload of handleAnalysisStarted.
handleAnalysisStarted(b) ==
  [jobId |-> b.jobId, resultId |-> Or(b.resultId, Null), status |-> "processing",
   assessment_name |-> Or(b.assessmentName, "Unknown Assessment"),
   message |-> "Your analysis has started processing...",
   estimated_time |-> Or(b.estimated, "1-3 minutes")]

\* The payload the handler of an event gives to sendToUser.
HandlerPayload(ev, b) ==
  CASE ev = "analysis-complete" -> handleAnalysisCompleted(b)
    [] ev = "analysis-started" -> handleAnalysisStarted(b)
    [] OTHER -> handleAnalysisFailed(b)

\* Dispatched with the parse error swallowed: an unparseable body goes on
\* to a handler as an event without fields.
Dispatched_SwallowParseError(b) ==
  IF b.kind = "null" THEN "none"
  ELSE IF b.kind = "garbage" THEN "analysis-failed" ELSE processEvent(b)

\* What the callback dispatches for a body.
Dispatched(b) == IF CallbackThrows(b) THEN "none" ELSE processEvent(b)

\* Settle with the ack moved in front of the handling: it is sent whether
\* or not the try block then throws.
Settle_AckFirst(threw) ==
  IF threw THEN [acks |-> 1, nacks |-> 1, requeue |-> FALSE]
  ELSE [acks |-> 1, nacks |-> 0, requeue |-> FALSE]

\* channel.ack(message) at the end of the try block, channel.nack(message,
\* false, false) in the catch block.
Settle(threw) ==
  IF threw THEN [acks |-> 0, nacks |-> 1, requeue |-> FALSE]
  ELSE [acks |-> 1, nacks |-> 0, requeue |-> FALSE]

\* CallbackCalls with channel.ack moved in front of processEvent.
CallbackCalls_AckFirst(ev, threw) ==
  IF threw THEN <<"ack", "nack">>
  ELSE <<"ack">> \o (IF ev # "none" THEN <<"sendToUser">> ELSE << >>)

\* The calls the callback makes on one message, in their order: the handler's
\* sendToUser inside the awaited processEvent, then channel.ack; or
\* channel.nack alone when JSON.parse or the read of eventType threw.
CallbackCalls(ev, threw) ==
  IF threw THEN <<"nack">>
  ELSE (IF ev # "none" THEN <<"sendToUser">> ELSE << >>) \o <<"ack">>

\* The consumer callback on one delivered message.  The broker delivers only
\* to a consumer registered on a channel whose connection is open.
HandleMessage ==
  /\ msg.st = "queued"
  /\ ec.isConsuming
  /\ ec.channel \in amqpOpen
  /\ LET b == msg.body
         ev == Dispatched(b)
         s == Settle(CallbackThrows(b))
     IN /\ IF ev # "none"
           THEN /\ sendToUser(b.userId, ev, HandlerPayload(ev, b))
                /\ sent' = [path |-> "broker", event |-> ev,
                            data |-> HandlerPayload(ev, b), in |-> b]
           ELSE UNCHANGED <<emitted, offlineNotificationCount, lastSend, sent>>
        /\ msg' = [msg EXCEPT !.st = "handled", !.acks = s.acks, !.nacks = s.nacks,
                              !.requeue = s.requeue,
                              !.sends = IF ev # "none" THEN 1 ELSE 0,
                              !.calls = CallbackCalls(ev, CallbackThrows(b))]
  /\ UNCHANGED <<connected, userId, authTimer, verifying, userConnections, rooms>>
  /\ UNCHANGED <<brokerUp, amqpOpen, connects, rmq, reconnectTimers, ec, boot>>
  /\ UNCHANGED <<res, uncaught>>

\* ------------------------------------------------------------ specifications
\* The gate, the registry and the dispatcher, with the broker loop at rest.
Init ==
  /\ SockInit
  /\ brokerUp = TRUE
  /\ BrokerVarsInit

Next ==
  \/ \E c \in Clients : Connect(c)
  \/ \E c \in Clients : AuthenticateMissing(c)
  \/ \E c \in Clients, t \in Tokens : AuthenticateCall(c, t)
  \/ \E c \in Clients, i \in 1..MaxVerifying, up \in BOOLEAN :
       VerifyResolve(c, i, up)
  \/ \E c \in Clients : AuthTimeout(c)
  \/ \E c \in Clients : Disconnect(c)
  \/ \E u \in Users : DisconnectUser(u)
  \/ \E q \in PlainRequests : Webhook(TrustedHeaders, q)

Spec == Init /\ [][Next]_vars

\* The broker loop, started while socket c1 is authenticated as u1; the
\* user can go offline.
BrokerInit ==
  /\ connected = [c \in Conns |-> IF c = "c1" THEN "open" ELSE "new"]
  /\ userId = [c \in Conns |-> IF c = "c1" THEN "u1" ELSE NoUser]
  /\ authTimer = [c \in Conns |-> IF c = "c1" THEN "passed" ELSE "idle"]
  /\ verifying = [c \in Conns |-> << >>]
  /\ userConnections = ("u1" :> {"c1"})
  /\ rooms = [u \in Users |-> IF u = "u1" THEN {"c1"} ELSE {}]
  /\ offlineNotificationCount = << >>
  /\ emitted = [c \in Conns |->
                  IF c = "c1" THEN [NoEmission EXCEPT !.authenticated = TRUE]
                  ELSE NoEmission]
  /\ lastSend = NoCall
  /\ sent = NoSend
  /\ res = NoReply
  /\ uncaught = FALSE
  /\ brokerUp \in BOOLEAN
  /\ BrokerVarsInit

BrokerNext ==
  \/ \E o \in {"refused", "setup", "ok"} : BootInitialize(o)
  \/ BootStartConsuming
  \/ \E g \in 1..MaxConnects, e \in BOOLEAN : ConnectionLost(g, e)
  \/ BrokerDown
  \/ BrokerBack
  \/ \E o \in {"refused", "setup", "ok"} : Reconnect(o)
  \/ \E b \in Bodies : Publish(b)
  \/ HandleMessage
  \/ Disconnect("c1")

BrokerSpec == BrokerInit /\ [][BrokerNext]_vars

\* The scheduling the runtime guarantees: a pending timer fires, a started
\* async function runs on, a delivered message reaches the callback.
BrokerFairness ==
  /\ WF_vars(\E o \in {"refused", "setup", "ok"} : BootInitialize(o))
  /\ WF_vars(BootStartConsuming)
  /\ WF_vars(\E o \in {"refused", "setup", "ok"} : Reconnect(o))
  /\ WF_vars(HandleMessage)

BrokerFairSpec == BrokerInit /\ [][BrokerNext]_vars /\ BrokerFairness

\* The two ingestion paths with every request and every body, started while
\* socket c1 is authenticated as u1 and the consumer is subscribed on the
\* first connection.
RoutingInit ==
  /\ connected = [c \in Conns |-> IF c = "c1" THEN "open" ELSE "new"]
  /\ userId = [c \in Conns |-> IF c = "c1" THEN "u1" ELSE NoUser]
  /\ authTimer = [c \in Conns |-> IF c = "c1" THEN "passed" ELSE "idle"]
  /\ verifying = [c \in Conns |-> << >>]
  /\ userConnections = ("u1" :> {"c1"})
  /\ rooms = [u \in Users |-> IF u = "u1" THEN {"c1"} ELSE {}]
  /\ offlineNotificationCount = << >>
  /\ emitted = [c \in Conns |->
                  IF c = "c1" THEN [NoEmission EXCEPT !.authenticated = TRUE]
                  ELSE NoEmission]
  /\ lastSend = NoCall
  /\ sent = NoSend
  /\ res = NoReply
  /\ uncaught = FALSE
  /\ brokerUp = TRUE
  /\ amqpOpen = {1}
  /\ connects = 1
  /\ rmq = [connection |-> 1, channel |-> 1]
  /\ reconnectTimers = 0
  /\ ec = [channel |-> 1, isConsuming |-> TRUE, consumers |-> 1,
           last |-> "registered"]
  /\ boot = "done"
  /\ msg = NoMessage

RoutingNext ==
  \/ \E q \in Requests : Webhook(TrustedHeaders, q)
  \/ \E b \in RichBodies : Publish(b)
  \/ HandleMessage

RoutingSpec == RoutingInit /\ [][RoutingNext]_vars

\* The webhook routes under every header combination, with one user on two
\* devices that can close, the second also authenticating again as another
\* user.
\* Bodies the schemas refuse: a status outside the route's set, a userId
\* that is no UUID, a required field left out.
BadRequests ==
  {[q EXCEPT !.status = "bogus"] : q \in PlainRequests}
  \cup {[q EXCEPT !.userId = "not-a-uuid"] : q \in PlainRequests}
  \cup {[q EXCEPT !.jobId = Absent] : q \in PlainRequests}

FanoutRequests ==
  {q \in PlainRequests \cup BadRequests : q.userId \in {"u1", "not-a-uuid"}}

FanoutInit ==
  /\ connected = [c \in Conns |-> "open"]
  /\ userId = [c \in Conns |-> "u1"]
  /\ authTimer = [c \in Conns |-> "passed"]
  /\ verifying = [c \in Conns |-> << >>]
  /\ userConnections = ("u1" :> Conns)
  /\ rooms = [u \in Users |-> IF u = "u1" THEN Conns ELSE {}]
  /\ offlineNotificationCount = << >>
  /\ emitted = [c \in Conns |-> [NoEmission EXCEPT !.authenticated = TRUE]]
  /\ lastSend = NoCall
  /\ sent = NoSend
  /\ res = NoReply
  /\ uncaught = FALSE
  /\ brokerUp = TRUE
  /\ amqpOpen = {1}
  /\ connects = 1
  /\ rmq = [connection |-> 1, channel |-> 1]
  /\ reconnectTimers = 0
  /\ ec = [channel |-> 1, isConsuming |-> TRUE, consumers |-> 1,
           last |-> "registered"]
  /\ boot = "done"
  /\ msg = NoMessage

FanoutNext ==
  \/ \E h \in Headers, q \in FanoutRequests : Webhook(h, q)
  \/ \E h \in Headers : Status(h)
  \/ AuthenticateCall("c2", "tok_u2")
  \/ \E i \in 1..MaxVerifying : VerifyResolve("c2", i, TRUE)
  \/ \E c \in Conns : Disconnect(c)

FanoutSpec == FanoutInit /\ [][FanoutNext]_vars

\* One device of u1 and the webhook route for u1 and for a user who never
\* connects.
LogRequests ==
  {[q EXCEPT !.userId = u] :
     q \in {p \in PlainRequests : p.kind = "started" /\ p.userId = "u1"},
     u \in {"u1", Offliner}}

LogNext ==
  \/ Connect("c1")
  \/ AuthenticateCall("c1", "tok_u1")
  \/ \E i \in 1..MaxVerifying : VerifyResolve("c1", i, TRUE)
  \/ AuthTimeout("c1")
  \/ Disconnect("c1")
  \/ \E q \in LogRequests : Webhook(TrustedHeaders, q)

LogSpec == Init /\ [][LogNext]_vars

\* The broker connection's life with startConsuming called again at any
\* time after start-up.
ConsumerNext ==
  \/ \E o \in {"refused", "setup", "ok"} : BootInitialize(o)
  \/ BootStartConsuming
  \/ \E g \in 1..MaxConnects, e \in BOOLEAN : ConnectionLost(g, e)
  \/ BrokerDown
  \/ BrokerBack
  \/ \E o \in {"refused", "setup", "ok"} : Reconnect(o)
  \/ StartConsuming

ConsumerSpec == Init /\ [][ConsumerNext]_vars

\* Events arriving from the queue while u1's device is not connected yet,
\* connected, or gone.
InboxInit ==
  /\ SockInit
  /\ brokerUp = TRUE
  /\ amqpOpen = {1}
  /\ connects = 1
  /\ rmq = [connection |-> 1, channel |-> 1]
  /\ reconnectTimers = 0
  /\ ec = [channel |-> 1, isConsuming |-> TRUE, consumers |-> 1,
           last |-> "registered"]
  /\ boot = "done"
  /\ msg = NoMessage

InboxNext ==
  \/ Connect("c1")
  \/ AuthenticateCall("c1", "tok_u1")
  \/ \E i \in 1..MaxVerifying : VerifyResolve("c1", i, TRUE)
  \/ AuthTimeout("c1")
  \/ Disconnect("c1")
  \/ \E b \in Bodies : Publish(b)
  \/ HandleMessage

InboxSpec == InboxInit /\ [][InboxNext]_vars

\* The socket side and the webhook side while the broker connection is never
\* made, lost, or being retried; no event is published.
OutageRequests == {q \in PlainRequests : q.userId = "u1"}

OutageNext ==
  \/ \E o \in {"refused", "setup", "ok"} : BootInitialize(o)
  \/ BootStartConsuming
  \/ \E g \in 1..MaxConnects, e \in BOOLEAN : ConnectionLost(g, e)
  \/ BrokerDown
  \/ BrokerBack
  \/ \E o \in {"refused", "setup", "ok"} : Reconnect(o)
  \/ Connect("c1")
  \/ AuthenticateCall("c1", "tok_u1")
  \/ \E i \in 1..MaxVerifying : VerifyResolve("c1", i, TRUE)
  \/ \E q \in OutageRequests : Webhook(TrustedHeaders, q)

OutageSpec == Init /\ [][OutageNext]_vars

\* The gate and the registry under two devices with valid tokens; nothing
\* is sent meanwhile.
PairNext ==
  \/ \E c \in Conns : Connect(c)
  \/ \E c \in Conns, t \in {"tok_u1", "tok_u2"} : AuthenticateCall(c, t)
  \/ \E c \in Conns, i \in 1..MaxVerifying, up \in BOOLEAN :
       VerifyResolve(c, i, up)
  \/ \E c \in Conns : AuthTimeout(c)
  \/ \E c \in Conns : AuthenticateNoPayload(c)
  \/ \E c \in Conns : Disconnect(c)
  \/ \E u \in Users : DisconnectUser(u)

PairSpec == Init /\ [][PairNext]_vars

\* ------------------------------------------------------------ properties

\* C1: no delivery event reaches a socket that has not been sent the
\* 'authenticated' confirmation before: in every state, a socket that has
\* received a delivery event has received the confirmation, and the sockets
\* the last sendToUser call reached had all received it.
C1_NoDeliveryBeforeAuthenticated ==
  /\ \A c \in Conns : emitted[c].delivered => emitted[c].authenticated
  /\ \A c \in lastSend.to : emitted[c].authenticated

C1_Witness ==
  \E c \in Conns : emitted[c].delivered /\ lastSend.ret /\ c \in lastSend.to

\* C2: a user id is a key of userConnections exactly when one of that
\* user's sockets is authenticated and open.
C2_RegistryIffLiveConnection ==
  \A u \in Users :
    (u \in DOMAIN userConnections)
      <=> (\E c \in Conns : userId[c] = u /\ connected[c] = "open")

\* C3: sendToUser(userId, ...) returns true exactly when the registry's set
\* for userId was non-empty at the call.
C3_SentIffRegistered ==
  lastSend.userId # NoUser => (lastSend.ret <=> lastSend.registered)

\* C4: a socket whose window expired while it was open and unauthenticated
\* is closed and has received exactly one failure signal.
C4_ExactlyOneFailureSignal ==
  \A c \in Conns :
    authTimer[c] = "expired"
      => connected[c] = "closed" /\ emitted[c].errors = 1

\* C5: every step that emits a failure signal to a socket closes that socket.
C5_FailureCloses ==
  [][\A c \in Conns :
       emitted'[c].errors > emitted[c].errors => connected'[c] = "closed"]_vars

\* C6: once a socket has received a failure signal it is never bound to a
\* user, registered, joined to a room or sent the confirmation.
C6_FailureIsTerminal ==
  [][\A c \in Conns :
       emitted[c].errors > 0 =>
         /\ userId'[c] = userId[c]
         /\ \A u \in Users :
              /\ c \in RoomOf(u)' => c \in RoomOf(u)
              /\ c \in listConnections(u)' => c \in listConnections(u)
         /\ emitted'[c].authenticated => emitted[c].authenticated]_vars

\* C7: the result of an authenticate call made on an authenticated socket
\* changes neither the socket's user id, nor the registry, nor the rooms, nor
\* whether the socket is open.
C7_ReauthenticateIsNoOp ==
  [][\A c \in Conns :
       (\E i \in 1..Len(verifying[c]) :
          /\ verifying[c][i].late
          /\ verifying'[c] = RemoveAt(verifying[c], i))
       => /\ userId'[c] = userId[c]
          /\ userConnections' = userConnections
          /\ rooms' = rooms
          /\ connected'[c] = connected[c]]_vars

\* The consumer the process registered is on a channel whose connection is open.
ConsumerLive == ec.isConsuming /\ ec.channel \in amqpOpen

\* Reconnection has run to its end: the module holds an open connection that
\* is not the one consume was called on, and no reconnect is pending.
Reconnected ==
  /\ boot = "done"
  /\ rmq.connection \in amqpOpen
  /\ rmq.connection # ec.channel
  /\ reconnectTimers = 0

\* C8: after a connection loss and a reconnect, a consumer is eventually
\* subscribed on the new channel, and a message waiting in the queue is
\* eventually handed to the callback (unless the new connection is lost too).
C8_ConsumingResumes ==
  /\ Reconnected ~> (ConsumerLive \/ rmq.connection \notin amqpOpen)
  /\ (Reconnected /\ msg.st = "queued")
       ~> (msg.st = "handled" \/ rmq.connection \notin amqpOpen)

\* C9: a message handed to the callback is settled exactly once: nacked
\* without requeue when its body is not JSON or is null (the try block
\* throws), acked otherwise.
C9_SettledExactlyOnce ==
  msg.st = "handled" =>
    /\ msg.acks + msg.nacks = 1
    /\ msg.body.kind \in {"garbage", "null"} => (msg.nacks = 1 /\ ~msg.requeue)
    /\ msg.body.kind \notin {"garbage", "null"} => msg.acks = 1

C9_Witness ==
  /\ msg.st = "handled"
  /\ msg.body.kind = "completed"
  /\ msg.acks = 1

\* C10: a message whose body cannot be parsed is nacked without requeue and
\* makes no sendToUser call.
C10_UnparseableRejected ==
  (msg.st = "handled" /\ msg.body.kind = "garbage") =>
    /\ msg.nacks = 1
    /\ msg.acks = 0
    /\ ~msg.requeue
    /\ msg.sends = 0

C10_Witness == msg.st = "handled" /\ msg.body.kind = "garbage"

\* C11: a handled message that led to no sendToUser call (undecodable body,
\* or an eventType that is no case of the switch) was nacked without
\* requeue and not acked.
C11_NoSilentDrop ==
  (msg.st = "handled" /\ msg.sends = 0) =>
    /\ msg.nacks = 1
    /\ ~msg.requeue
    /\ msg.acks = 0

\* C12: when the first rabbitmq.initialize() was refused and the broker is
\* reachable again, consumption eventually starts (unless the broker goes
\* away again).
C12_StartupRetries ==
  (boot = "failed" /\ connects = 0 /\ brokerUp) ~> (ConsumerLive \/ ~brokerUp)

\* eventConsumer.getStatus()
getStatus == [isConsuming |-> ec.isConsuming, isConnected |-> ec.channel # 0]

\* C13: getStatus().isConnected is true exactly when the consumer's channel
\* is on an open connection, and getStatus().isConsuming exactly when a
\* consumer is subscribed on an open channel.
C13_StatusIsReal ==
  /\ getStatus.isConnected <=> (ec.channel \in amqpOpen)
  /\ getStatus.isConsuming <=> ConsumerLive

\* C17: the timer does nothing to a socket that closed before the window
\* expired: its callback never runs the emit and the disconnect on a closed
\* socket ("lapsed" is the callback having done so).
C17_TimerCancelledOnClose ==
  \A c \in Conns : authTimer[c] # "lapsed"

\* C18: when the window of an authenticated socket expires, nothing is
\* emitted to the socket and it is not closed.
C18_NoTimeoutAfterSuccess ==
  [][\A c \in Conns :
       (userId[c] # NoUser /\ authTimer[c] = "pending" /\ authTimer'[c] # "pending")
       => /\ emitted'[c] = emitted[c]
          /\ connected'[c] = connected[c]]_vars

C18_Witness ==
  \E c \in Conns :
    /\ authTimer[c] = "passed"
    /\ connected[c] = "open"
    /\ emitted[c].authenticated

\* C20: disconnectUser(u) on a registered user closes every socket that was
\* registered for u and leaves the registry without an entry for u; on a
\* user without an entry it changes nothing.
C20_ForcedDisconnect ==
  [][\A u \in Users :
       DisconnectUser(u) =>
         IF u \in DOMAIN userConnections
         THEN /\ u \notin DOMAIN userConnections'
              /\ \A c \in userConnections[u] : connected'[c] = "closed"
         ELSE UNCHANGED vars]_vars

\* The route a body's event corresponds to.
RouteOf(b) ==
  CASE b.kind = "started" -> "started"
    [] b.kind = "completed" -> "completed"
    [] b.kind = "failed" -> "failed"
    [] b.kind = "unsupported" -> "unknown"
    [] OTHER -> "none"

\* A broker body and a webhook request that carry the same event.
Equivalent(b, q) ==
  /\ RouteOf(b) = q.kind
  /\ b.jobId = q.jobId
  /\ b.resultId = q.resultId
  /\ b.assessmentName = q.assessmentName
  /\ b.errorMessage = q.errorMessage

\* C14: for every event kind and equivalent inputs, the payload given to
\* sendToUser has the same fields and the same status on the webhook path and
\* on the broker path.
C14_SamePayloadShape ==
  /\ sent.path = "webhook" =>
       \A b \in RichBodies :
         Equivalent(b, sent.in) =>
           /\ DOMAIN HandlerPayload(processEvent(b), b) = DOMAIN sent.data
           /\ HandlerPayload(processEvent(b), b).status = sent.data.status
  /\ sent.path = "broker" =>
       \A q \in Requests :
         (validateNotification(q) /\ Equivalent(sent.in, q)) =>
           /\ DOMAIN RoutePayload(q) = DOMAIN sent.data
           /\ RoutePayload(q).status = sent.data.status

FailedShape == {"status", "result_id", "assessment_name", "error_message"}

C19_DeregisterIdempotentLocal ==
  [][\A c \in Conns :
       Disconnect(c) =>
         /\ handleDisconnect(userConnections', c) = userConnections'
         /\ \A u \in DOMAIN userConnections :
              userConnections[u] \ {c} \subseteq listConnections(u)']_vars

C19_Witness ==
  \E c, d \in Conns, u \in Users :
    /\ c # d
    /\ connected[c] = "closed"
    /\ userId[c] = u
    /\ c \notin listConnections(u)
    /\ connected[d] = "open"
    /\ d \in listConnections(u)

\* C21: when the verifier does not answer while a valid token is verified,
\* the socket gets a failure signal that is not the one of an invalid
\* credential, is closed, and is in no entry of the registry.
C21_UnreachableVerifierSignalled ==
  [][\A c \in Conns, i \in 1..MaxVerifying :
       (/\ connected[c] = "open"
        /\ i <= Len(verifying[c])
        /\ verifying[c][i].token \in {"tok_u1", "tok_u2"}
        /\ VerifyResolve(c, i, FALSE))
       => /\ emitted'[c].lastError \notin {"", "Invalid or expired token"}
          /\ connected'[c] = "closed"
          /\ \A u \in Users : c \notin listConnections(u)']_vars

\* C22: an expired token is answered with auth_error 'Token expired', an
\* invalid one with auth_error 'Invalid token'.
C22_ExpiredDistinctFromInvalid ==
  [][\A c \in Conns, i \in 1..MaxVerifying, up \in BOOLEAN :
       (/\ connected[c] = "open"
        /\ i <= Len(verifying[c])
        /\ VerifyResolve(c, i, up))
       => /\ verifying[c][i].token = "expired"
               => emitted'[c].lastError = "Token expired"
          /\ verifying[c][i].token = "invalid"
               => emitted'[c].lastError = "Invalid token"]_vars

\* C23: the expiry of one socket's window emits nothing to any other socket,
\* closes no other socket, and takes no other socket out of the registry or
\* of a room.
C23_WindowsIndependent ==
  [][\A a \in Conns :
       AuthTimeout(a) =>
         \A b \in Conns \ {a} :
           /\ emitted'[b] = emitted[b]
           /\ connected'[b] = connected[b]
           /\ userId'[b] = userId[b]
           /\ \A u \in Users :
                /\ b \in listConnections(u) => b \in listConnections(u)'
                /\ b \in RoomOf(u) => b \in RoomOf(u)']_vars

C23_Witness ==
  \E a, b \in Conns :
    /\ a # b
    /\ authTimer[a] = "expired"
    /\ authTimer[b] = "pending"
    /\ connected[b] = "open"
    /\ (userId[b] # NoUser \/ verifying[b] # << >>)

\* The open sockets that authenticated as u and have not been bound to
\* another user since.
LiveConnections(u) ==
  {c \in Conns : /\ connected[c] = "open"
                 /\ userId[c] = u
                 /\ c \in RoomOf(u)}

\* C24: one sendToUser call for a user with two open authenticated sockets
\* returns true and writes to each of the two exactly one packet, with the
\* same event name, the same data and the same timestamp.
C24_FanoutToEveryDevice ==
  [][\A h \in Headers, q \in FanoutRequests :
       (/\ serviceAuth(h)
        /\ validateNotification(q)
        /\ Cardinality(LiveConnections(q.userId)) = 2
        /\ Webhook(h, q))
       => /\ lastSend'.ret
          /\ \A c \in LiveConnections(q.userId) :
               /\ c \in DOMAIN lastSend'.packets
               /\ Len(lastSend'.packets[c]) = 1
               /\ lastSend'.packets[c][1].event = RouteEvent(q.kind)
               /\ lastSend'.packets[c][1].data = RoutePayload(q)
               /\ emitted'[c].delivered
          /\ \A c, d \in LiveConnections(q.userId) :
               lastSend'.packets[c] = lastSend'.packets[d]]_vars

C24_Witness ==
  /\ lastSend.ret
  /\ Cardinality(DOMAIN lastSend.packets) = 2
  /\ \A c \in Conns : emitted[c].delivered /\ userId[c] = lastSend.userId

C26_TimeoutWithoutAuthenticate ==
  /\ [](\A c \in Conns :
          userId[c] = NoUser => \A u \in Users : c \notin listConnections(u))
  /\ [][\A c \in Conns :
          (/\ connected[c] = "open"
           /\ userId[c] = NoUser
           /\ verifying[c] = << >>
           /\ emitted[c].errors = 0
           /\ AuthTimeout(c))
          => /\ emitted'[c].errors = 1
             /\ emitted'[c].lastError = "Authentication timeout"
             /\ ~emitted'[c].authenticated
             /\ connected'[c] = "closed"
             /\ \A u \in Users : c \notin listConnections(u)']_vars

C26_Witness ==
  \E c \in Conns :
    /\ authTimer[c] = "expired"
    /\ emitted[c].errors = 1
    /\ emitted[c].lastError = "Authentication timeout"
    /\ connected[c] = "closed"
    /\ userId[c] = NoUser

\* C27: a reconnect that runs makes a new connection and channel whenever
\* the broker accepts one, and while no connection is open a pending
\* reconnect is never used up without another one being scheduled.
C27_ReconnectNeverGivesUp ==
  [][/\ (reconnectTimers > 0 /\ amqpOpen' = {}) => reconnectTimers' > 0
     /\ \A o \in {"setup", "ok"} :
          Reconnect(o) => /\ rmq'.connection = connects + 1
                          /\ rmq'.channel = connects + 1
                          /\ rmq'.connection \in amqpOpen'
                          /\ rmq.connection \notin amqpOpen']_vars

C27_Witness ==
  /\ ~brokerUp
  /\ connects > 0
  /\ amqpOpen = {}
  /\ reconnectTimers > 0
  /\ rmq.connection > 1

\* C28: while the module holds no open broker connection (never made, lost,
\* or a reconnect pending), a valid token still authenticates its socket and
\* a webhook request for a user with an open authenticated socket is still
\* delivered to it.
BrokerUnavailable == rmq.connection \notin amqpOpen

C28_OutageLeavesOtherPaths ==
  [][BrokerUnavailable =>
       /\ \A i \in 1..MaxVerifying :
            (connected["c1"] = "open" /\ VerifyResolve("c1", i, TRUE))
            => /\ userId'["c1"] = "u1"
               /\ emitted'["c1"].authenticated
               /\ "c1" \in listConnections("u1")'
       /\ \A q \in OutageRequests :
            (LiveConnections("u1") = {"c1"} /\ Webhook(TrustedHeaders, q))
            => /\ res'.status = 200
               /\ lastSend'.ret
               /\ "c1" \in DOMAIN lastSend'.packets
               /\ emitted'["c1"].delivered]_vars

C28_Witness ==
  /\ connects = 0
  /\ boot = "failed"
  /\ ~brokerUp
  /\ emitted["c1"].authenticated
  /\ emitted["c1"].delivered

\* C29: no exception leaves an event listener or the consumer callback
\* uncaught.
C29_NothingUncaught == uncaught = FALSE

\* C30: a request to one of the four POST routes or to GET /status without
\* the service key, without the internal-service header or with another key
\* is answered 401 and calls sendToUser for nobody, whether its body is
\* valid or not.
C30_UnauthenticatedIsRefused ==
  [][\A h \in Headers :
       ~serviceAuth(h) =>
         /\ \A q \in FanoutRequests :
              Webhook(h, q) => /\ res'.status = 401
                               /\ lastSend' = lastSend
                               /\ sent' = sent
                               /\ emitted' = emitted
                               /\ offlineNotificationCount' = offlineNotificationCount
         /\ Status(h) => res'.status = 401]_vars

C30_Witness ==
  /\ res.status = 401
  /\ sent = NoSend
  /\ lastSend = NoCall

C33_MissesCountedAndThinned ==
  [][/\ \A q \in LogRequests :
          Webhook(TrustedHeaders, q) =>
            /\ lastSend'.ret =>
                 /\ q.userId \notin DOMAIN offlineNotificationCount'
                 /\ ~lastSend'.missLogged
            /\ ~lastSend'.ret =>
                 /\ OfflineCount(q.userId)' = OfflineCount(q.userId) + 1
                 /\ lastSend'.missLogged <=>
                      OfflineCount(q.userId)' \in {1, 10, 20}
            /\ \A v \in (Users \cup {Offliner}) \ {q.userId} :
                 OfflineCount(v)' = OfflineCount(v)
     /\ offlineNotificationCount' # offlineNotificationCount
          => \E q \in LogRequests : Webhook(TrustedHeaders, q)]_vars

C33_Witness ==
  /\ lastSend.userId = Offliner
  /\ lastSend.missLogged
  /\ OfflineCount(Offliner) = 10
  /\ OfflineCount("u1") = 1
  /\ emitted["c1"].delivered

\* C34: channel.ack is the last call the callback makes on a message: it
\* comes after the handler's sendToUser call, and a message the callback has
\* not handled to its end has no ack and no nack.
C34_AckAfterHandling ==
  /\ msg.st = "queued" => (msg.acks = 0 /\ msg.nacks = 0 /\ msg.calls = << >>)
  /\ (msg.st = "handled" /\ msg.acks > 0) =>
       /\ msg.calls # << >>
       /\ msg.calls[Len(msg.calls)] = "ack"
       /\ \A i \in 1..(Len(msg.calls) - 1) : msg.calls[i] # "ack"
       /\ msg.sends > 0 => msg.calls = <<"sendToUser", "ack">>

C34_Witness ==
  /\ msg.st = "handled"
  /\ msg.calls = <<"sendToUser", "ack">>
  /\ lastSend.userId = msg.body.userId

\* The events a handler exists for.
WellFormed(b) == b.kind \in {"started", "completed", "failed", "unsupported"}

\* C35: a well-formed message for a user whose room is empty is acknowledged
\* and not rejected, writes to no socket, and a socket is written an event
\* only in the step that handles a message while it is in the room, so the
\* event reaches no connection made later.
C35_OfflineMessageAcked ==
  [][/\ (/\ HandleMessage
         /\ WellFormed(msg.body)
         /\ RoomOf(msg.body.userId) = {})
        => /\ msg'.acks = 1
           /\ msg'.nacks = 0
           /\ ~msg'.requeue
           /\ msg'.st = "handled"
           /\ lastSend'.userId = msg.body.userId
           /\ ~lastSend'.ret
           /\ emitted' = emitted
     /\ \A c \in Conns :
          emitted'[c].delivered # emitted[c].delivered
          => /\ HandleMessage
             /\ c \in RoomOf(msg.body.userId)
             /\ c \in DOMAIN lastSend'.packets]_vars

C35_Witness ==
  /\ msg.st = "handled"
  /\ WellFormed(msg.body)
  /\ msg.acks = 1
  /\ lastSend.userId = msg.body.userId
  /\ ~lastSend.ret
  /\ userId["c1"] = msg.body.userId
  /\ connected["c1"] = "open"
  /\ emitted["c1"].authenticated
  /\ ~emitted["c1"].delivered

\* C36: a sendToUser call for user U writes only to sockets bound to U, and
\* a socket is in the registry under at most one user id.
C36_UserIsolation ==
  [][/\ lastSend' # lastSend =>
          \A c \in lastSend'.to : userId'[c] = lastSend'.userId
     /\ \A c \in Conns :
          Cardinality({u \in Users : c \in listConnections(u)'}) <= 1]_vars

\* C37: after the loss of the first connection, a reconnect that succeeds
\* leaves the connection it made as the only open one and no reconnect
\* pending that would close it.
C37_ReconnectStabilises ==
  [][(/\ connects = 1
      /\ amqpOpen = {}
      /\ brokerUp
      /\ Reconnect("ok"))
     => /\ amqpOpen' = {rmq'.connection}
        /\ reconnectTimers' = 0]_vars

\* C38: the process registers at most one consumer; startConsuming with
\* isConsuming true registers nothing and does not fail; with no channel it
\* fails and leaves isConsuming false; isConsuming turns true only in a call
\* whose channel.consume succeeded, on a channel of an open connection.
C38_OneConsumer ==
  /\ [](ec.consumers <= 1)
  /\ [][/\ StartConsuming =>
              /\ ec.isConsuming =>
                   /\ ec'.last = "noop"
                   /\ ec'.consumers = ec.consumers
                   /\ ec'.isConsuming
              /\ ec.channel = 0 =>
                   /\ ec'.last = "threw"
                   /\ ~ec'.isConsuming
                   /\ ec'.consumers = ec.consumers
        /\ (ec'.isConsuming /\ ~ec.isConsuming) =>
              /\ ec'.last = "registered"
              /\ ec'.consumers = ec.consumers + 1
              /\ ec.channel \in amqpOpen]_vars

C38_Witness ==
  /\ ec.last = "noop"
  /\ ec.consumers = 1
  /\ ec.isConsuming

\* C39: a sendToUser call changes no registry set, no socket's bound user,
\* no socket's open or authenticated state; a socket enters a registry set
\* only when a verification of its token succeeds and leaves one only when
\* it is closed.
C39_DispatchLeavesRegistry ==
  [][/\ (\E q \in PlainRequests : Webhook(TrustedHeaders, q)) =>
          /\ userConnections' = userConnections
          /\ userId' = userId
          /\ connected' = connected
          /\ \A c \in Conns :
               emitted'[c].authenticated = emitted[c].authenticated
     /\ \A c \in Conns, u \in Users :
          /\ (c \in listConnections(u)' /\ c \notin listConnections(u)) =>
               /\ \E i \in 1..MaxVerifying : VerifyResolve(c, i, TRUE)
               /\ userId'[c] = u
          /\ (c \in listConnections(u) /\ c \notin listConnections(u)') =>
               /\ connected[c] = "open"
               /\ connected'[c] = "closed"]_vars

C39_Witness ==
  /\ lastSend.userId \in Users
  /\ listConnections(lastSend.userId) # {}
  /\ lastSend.ret
  /\ sent.path = "webhook"

====
